---------------------------- MODULE Spec2Model ----------------------------
(***************************************************************************)
(* A model of the Document-summarizer pipeline: preprocess_text,           *)
(* summarize_text, evaluate_summary_quality, summarize_text_with_db        *)
(* (src/backend.py) and the SQLite-backed SummaryDatabase                  *)
(* (src/database.py).                                                      *)
(*                                                                         *)
(* A Python str is a sequence of one-character strings (a fixed message    *)
(* that no character-level operation reads is one element).  The character *)
(* U+2022 (the bullet) is written "bullet".  Floating-point ratios are     *)
(* compared exactly, by cross-multiplication (Python's int/int division    *)
(* is correctly rounded, so s/o compares with the literals 0.05 and 0.4    *)
(* as the exact quotient does for every text of fewer than 10^15 words).   *)
(***************************************************************************)
EXTENDS Integers, Sequences, FiniteSets, TLC

(***************************************************************************)
(* Bounds of the model.                                                    *)
(***************************************************************************)
MaxTokens == 4
MaxId == 3
MaxTime == 1
\* the largest id a store client's save may be given
MaxSaves == 2

(***************************************************************************)
(* Characters and character classes of Python's re module and str methods. *)
(***************************************************************************)
Bullet == "bullet"

UpperCase ==
  <<"A","B","C","D","E","F","G","H","I","J","K","L","M",
    "N","O","P","Q","R","S","T","U","V","W","X","Y","Z">>

LowerCase ==
  <<"a","b","c","d","e","f","g","h","i","j","k","l","m",
    "n","o","p","q","r","s","t","u","v","w","x","y","z">>

Digits == {"0","1","2","3","4","5","6","7","8","9"}

Range(f) == {f[i] : i \in DOMAIN f}

\* \s, and the characters str.strip() and str.split() treat as blank
IsSpace(c) == c \in {" ", "\n", "\t", "\r"}

\* \d
IsDigit(c) == c \in Digits

\* [A-Z]
IsUpper(c) == c \in Range(UpperCase)

\* \w
IsWord(c) == c \in Range(UpperCase) \cup Range(LowerCase) \cup Digits \cup {"_"}

\* str.lower(), one character
Lower(c) ==
  IF \E i \in 1..26 : UpperCase[i] = c
  THEN LowerCase[CHOOSE i \in 1..26 : UpperCase[i] = c]
  ELSE c

LowerStr(s) == [i \in 1..Len(s) |-> Lower(s[i])]

SetMin(S) == CHOOSE x \in S : \A y \in S : x <= y
SetMax(S) == CHOOSE x \in S : \A y \in S : x >= y

\* str.strip()
Strip(s) ==
  LET idx == {i \in 1..Len(s) : ~IsSpace(s[i])}
  IN  IF idx = {} THEN <<>> ELSE SubSeq(s, SetMin(idx), SetMax(idx))

\* `not text or not text.strip()'
IsBlank(s) == s = <<>> \/ Strip(s) = <<>>

\* `sub in s'
Contains(sub, s) ==
  \E i \in 0..(Len(s) - Len(sub)) : \A j \in 1..Len(sub) : s[i + j] = sub[j]

\* s.startswith(prefix)
StartsWith(s, prefix) ==
  /\ Len(s) >= Len(prefix)
  /\ \A j \in 1..Len(prefix) : s[j] = prefix[j]

\* len(s.split()): the number of maximal runs of non-blank characters
WordCount(s) ==
  Cardinality({i \in 1..Len(s) :
                 ~IsSpace(s[i]) /\ (i = 1 \/ IsSpace(s[i - 1]))})

\* len(s.split('.')): one more than the number of periods
PeriodSegments(s) == Cardinality({i \in 1..Len(s) : s[i] = "."}) + 1

(***************************************************************************)
(* preprocess_text (src/backend.py:54-90).  Each re.sub is a left-to-right *)
(* scan: at position i the pattern either matches a span i..e, which is    *)
(* replaced and the scan resumes at e+1, or the character is copied and    *)
(* the scan resumes at i+1.  No pattern here matches the empty string.     *)
(***************************************************************************)

\* the last index of the run of characters satisfying the class, from i
\* (i - 1 when s[i] is not in the class)
RECURSIVE SpaceRunEnd(_, _)
SpaceRunEnd(s, i) ==
  IF i <= Len(s) /\ IsSpace(s[i]) THEN SpaceRunEnd(s, i + 1) ELSE i - 1

RECURSIVE DigitRunEnd(_, _)
DigitRunEnd(s, i) ==
  IF i <= Len(s) /\ IsDigit(s[i]) THEN DigitRunEnd(s, i + 1) ELSE i - 1

\* ^ under re.MULTILINE
AtLineStart(s, i) == i = 1 \/ s[i - 1] = "\n"

\* line 68: re.sub(r'\s+', ' ', ...)
RECURSIVE CollapseSpace(_, _)
CollapseSpace(s, i) ==
  IF i > Len(s) THEN <<>>
  ELSE IF IsSpace(s[i])
       THEN <<" ">> \o CollapseSpace(s, SpaceRunEnd(s, i) + 1)
       ELSE <<s[i]>> \o CollapseSpace(s, i + 1)

\* line 71: the characters [^\w\s\.\,\!\?\;\:\-\(\)\[\]\{\}] deletes
IsNoise(c) ==
  ~(IsWord(c) \/ IsSpace(c)
      \/ c \in {".", ",", "!", "?", ";", ":", "-", "(", ")", "[", "]", "{", "}"})

RemoveNoise(s) == SelectSeq(s, LAMBDA c : ~IsNoise(c))

\* line 74: re.sub(r'(\w)\|(\w)', r'\1l\2', ...)
RECURSIVE FixBar(_, _)
FixBar(s, i) ==
  IF i > Len(s) THEN <<>>
  ELSE IF i + 2 <= Len(s) /\ IsWord(s[i]) /\ s[i + 1] = "|" /\ IsWord(s[i + 2])
       THEN <<s[i], "l", s[i + 2]>> \o FixBar(s, i + 3)
       ELSE <<s[i]>> \o FixBar(s, i + 1)

\* line 75: re.sub(r'(\w)0(\w)', r'\1o\2', ...)
RECURSIVE FixZero(_, _)
FixZero(s, i) ==
  IF i > Len(s) THEN <<>>
  ELSE IF i + 2 <= Len(s) /\ IsWord(s[i]) /\ s[i + 1] = "0" /\ IsWord(s[i + 2])
       THEN <<s[i], "o", s[i + 2]>> \o FixZero(s, i + 3)
       ELSE <<s[i]>> \o FixZero(s, i + 1)

\* line 78: re.sub(r'Page \d+', '', ...)
PageWord == <<"P", "a", "g", "e", " ">>

RECURSIVE RemovePage(_, _)
RemovePage(s, i) ==
  IF i > Len(s) THEN <<>>
  ELSE IF /\ i + 5 <= Len(s)
          /\ SubSeq(s, i, i + 4) = PageWord
          /\ IsDigit(s[i + 5])
       THEN RemovePage(s, DigitRunEnd(s, i + 5) + 1)
       ELSE <<s[i]>> \o RemovePage(s, i + 1)

\* line 79: re.sub(r'^\d+\s*', '', ..., flags=re.MULTILINE)
RECURSIVE RemoveLineNumber(_, _)
RemoveLineNumber(s, i) ==
  IF i > Len(s) THEN <<>>
  ELSE IF AtLineStart(s, i) /\ IsDigit(s[i])
       THEN RemoveLineNumber(s, SpaceRunEnd(s, DigitRunEnd(s, i) + 1) + 1)
       ELSE <<s[i]>> \o RemoveLineNumber(s, i + 1)

\* line 82: re.sub(r'^\s*[bullet\-\*]\s*', '', ..., flags=re.MULTILINE)
IsBulletMark(c) == c \in {Bullet, "-", "*"}

RECURSIVE RemoveBullet(_, _)
RemoveBullet(s, i) ==
  IF i > Len(s) THEN <<>>
  ELSE LET m == SpaceRunEnd(s, i) + 1
       IN  IF AtLineStart(s, i) /\ m <= Len(s) /\ IsBulletMark(s[m])
           THEN RemoveBullet(s, SpaceRunEnd(s, m + 1) + 1)
           ELSE <<s[i]>> \o RemoveBullet(s, i + 1)

\* line 85: re.sub(r'\n\s*\n\s*\n+', '\n\n', ...): a match starts at a
\* newline whose run of blanks holds at least three newlines and ends at
\* the last newline of that run
RECURSIVE CollapseNewlines(_, _)
CollapseNewlines(s, i) ==
  IF i > Len(s) THEN <<>>
  ELSE LET nl == {k \in i..SpaceRunEnd(s, i) : s[k] = "\n"}
       IN  IF s[i] = "\n" /\ Cardinality(nl) >= 3
           THEN <<"\n", "\n">> \o CollapseNewlines(s, SetMax(nl) + 1)
           ELSE <<s[i]>> \o CollapseNewlines(s, i + 1)

\* line 88: re.sub(r'([.!?])\s*([A-Z])', r'\1 \2', ...)
RECURSIVE SpaceSentences(_, _)
SpaceSentences(s, i) ==
  IF i > Len(s) THEN <<>>
  ELSE LET m == SpaceRunEnd(s, i + 1) + 1
       IN  IF s[i] \in {".", "!", "?"} /\ m <= Len(s) /\ IsUpper(s[m])
           THEN <<s[i], " ", s[m]>> \o SpaceSentences(s, m + 1)
           ELSE <<s[i]>> \o SpaceSentences(s, i + 1)

\* the substitutions alone, without the test of lines 64-65 and without
\* either strip()
SubstitutionsOnly(text) ==
  LET t1 == CollapseSpace(text, 1)
      t2 == RemoveNoise(t1)
      t3 == FixBar(t2, 1)
      t4 == FixZero(t3, 1)
      t5 == RemovePage(t4, 1)
      t6 == RemoveLineNumber(t5, 1)
      t7 == RemoveBullet(t6, 1)
      t8 == CollapseNewlines(t7, 1)
  IN  SpaceSentences(t8, 1)

preprocess_text(text) ==
  IF IsBlank(text) THEN <<>>
  ELSE LET t1 == CollapseSpace(Strip(text), 1)
           t2 == RemoveNoise(t1)
           t3 == FixBar(t2, 1)
           t4 == FixZero(t3, 1)
           t5 == RemovePage(t4, 1)
           t6 == RemoveLineNumber(t5, 1)
           t7 == RemoveBullet(t6, 1)
           t8 == CollapseNewlines(t7, 1)
           t9 == SpaceSentences(t8, 1)
       IN  Strip(t9)

(***************************************************************************)
(* evaluate_summary_quality and get_improvement_suggestions                *)
(* (src/backend.py:371-470).  A report is the returned dict; the           *)
(* compression_ratio entry, round(ratio * 100, 1), is held in tenths of a  *)
(* percent.  The feedback and suggestion texts are the source's, without   *)
(* their leading pictographs.                                              *)
(***************************************************************************)
\* Python's None, and a value where None may stand
None == <<>>
Some(x) == <<x>>

key_indicators ==
  { <<"c","o","n","c","l","u","s","i","o","n">>,
    <<"s","u","m","m","a","r","y">>,
    <<"t","h","e","r","e","f","o","r","e">>,
    <<"t","h","u","s">>,
    <<"o","v","e","r","a","l","l">>,
    <<"k","e","y">>,
    <<"i","m","p","o","r","t","a","n","t">>,
    <<"m","a","i","n">> }

\* line 386, as the exact fraction summary_length / original_length
\* (0 / 1 when the original has no words)
CompressionRatio(original_length, summary_length) ==
  IF original_length > 0
  THEN [num |-> summary_length, den |-> original_length]
  ELSE [num |-> 0, den |-> 1]

\* ratio < a/b, <= a/b, > a/b and >= a/b for a fraction with den > 0
RatioLt(r, a, b) == r.num * b < a * r.den
RatioLe(r, a, b) == r.num * b <= a * r.den
RatioGt(r, a, b) == r.num * b > a * r.den
RatioGe(r, a, b) == r.num * b >= a * r.den

\* the test of line 393 with the two bounds excluded
GoodCompressionExclusive(r) == RatioGt(r, 5, 100) /\ RatioLt(r, 4, 10)

\* the test of line 393 with the upper bound at the whole text
GoodCompressionUpToWhole(r) == RatioGe(r, 5, 100) /\ RatioLe(r, 1, 1)

\* line 393: 0.05 <= compression_ratio <= 0.4
GoodCompression(r) == RatioGe(r, 5, 100) /\ RatioLe(r, 4, 10)

\* line 403
HasKeyIndicator(summary) ==
  \E indicator \in key_indicators : Contains(indicator, LowerStr(summary))

\* the test of line 408 without its first alternative
HasStructureNoBullet(summary) ==
  \E i \in 1..Len(summary) : summary[i] \in {"-", "\n"}

\* line 408
HasStructure(summary) ==
  \E i \in 1..Len(summary) : summary[i] \in {Bullet, "-", "\n"}

\* the chain of lines 426-433 with > in place of >=
OverallRatingExclusive(quality_score) ==
  IF quality_score > 80 THEN "Excellent"
  ELSE IF quality_score > 60 THEN "Good"
  ELSE IF quality_score > 40 THEN "Fair"
  ELSE "Needs Improvement"

\* lines 426-433
OverallRating(quality_score) ==
  IF quality_score >= 80 THEN "Excellent"
  ELSE IF quality_score >= 60 THEN "Good"
  ELSE IF quality_score >= 40 THEN "Fair"
  ELSE "Needs Improvement"

\* round(compression_ratio * 100, 1), in tenths of a percent
RatioPercentTenths(r) == (2000 * r.num + r.den) \div (2 * r.den)

\* lines 452-470 with the tests of lines 460 and 463 exchanged
SuggestionsStylesExchanged(quality_score, compression_ratio) ==
  (IF quality_score < 60
   THEN <<"Consider regenerating with a different style",
          "Check if the document text is properly extracted">>
   ELSE <<>>)
  \o (IF RatioGt(compression_ratio, 4, 10)
      THEN <<"Try 'Detailed' style for more comprehensive summary">>
      ELSE <<>>)
  \o (IF RatioLt(compression_ratio, 5, 100)
      THEN <<"Try 'Abstract' style for more concise summary">>
      ELSE <<>>)
  \o (IF quality_score < 40
      THEN <<"Verify document format is supported",
             "Ensure document contains readable text content">>
      ELSE <<>>)

\* lines 452-470
get_improvement_suggestions(quality_score, compression_ratio) ==
  (IF quality_score < 60
   THEN <<"Consider regenerating with a different style",
          "Check if the document text is properly extracted">>
   ELSE <<>>)
  \o (IF RatioLt(compression_ratio, 5, 100)
      THEN <<"Try 'Detailed' style for more comprehensive summary">>
      ELSE <<>>)
  \o (IF RatioGt(compression_ratio, 4, 10)
      THEN <<"Try 'Abstract' style for more concise summary">>
      ELSE <<>>)
  \o (IF quality_score < 40
      THEN <<"Verify document format is supported",
             "Ensure document contains readable text content">>
      ELSE <<>>)

evaluate_summary_quality(original_text, summary) ==
  LET original_length == WordCount(original_text)
      summary_length == WordCount(summary)
      compression_ratio == CompressionRatio(original_length, summary_length)
      good == GoodCompression(compression_ratio)
      ind == HasKeyIndicator(summary)
      struct == HasStructure(summary)
      sentences == PeriodSegments(summary)
      quality_score ==
          (IF good THEN 25 ELSE 0)
        + (IF ind THEN 20 ELSE 0)
        + (IF struct THEN 15 ELSE 0)
        + (IF summary_length >= 50 THEN 20 ELSE 0)
        + (IF sentences >= 2 THEN 20 ELSE 0)
      feedback ==
           (IF good THEN <<"Good compression ratio">>
            ELSE IF RatioLt(compression_ratio, 5, 100)
                 THEN <<"Summary might be too brief">>
                 ELSE <<"Summary might be too verbose">>)
        \o (IF ind THEN <<"Contains key content indicators">> ELSE <<>>)
        \o (IF struct THEN <<"Well-structured format">> ELSE <<>>)
        \o (IF summary_length >= 50 THEN <<"Appropriate summary length">>
            ELSE IF summary_length < 20 THEN <<"Summary might be too short">>
                 ELSE <<>>)
        \o (IF sentences >= 2 THEN <<"Contains complete thoughts">> ELSE <<>>)
  IN  [ quality_score |-> quality_score,
        overall_rating |-> OverallRating(quality_score),
        compression_ratio |-> RatioPercentTenths(compression_ratio),
        original_length |-> original_length,
        summary_length |-> summary_length,
        feedback |-> feedback,
        suggestions |-> get_improvement_suggestions(quality_score, compression_ratio) ]

(***************************************************************************)
(* SummaryDatabase (src/database.py).  The summaries table is a set of     *)
(* rows; sqlite_sequence holds the largest id AUTOINCREMENT has assigned.  *)
(* Every method opens a connection of its own; a writing statement takes   *)
(* the database's write lock, which commit or rollback releases.           *)
(* The clock `now' counts one unit per tick; CURRENT_TIMESTAMP,            *)
(* time.time() and the `days' of the retention queries read it.            *)
(***************************************************************************)
VARIABLES
  summaries,   \* the committed rows of table summaries
  sqlite_seq,  \* sqlite_sequence.seq for table summaries
  writer,      \* the request holding the write lock, or None
  now,         \* the clock
  last,        \* the store operation that ran last and what it returned
  pc,          \* where each request of summarize_text_with_db stands
  req,         \* each request's arguments
  loc,         \* each request's local variables
  outcome,     \* the dict each request returned
  pre,         \* the harness applying preprocess_text
  ev           \* the harness applying evaluate_summary_quality

storeVars == <<summaries, sqlite_seq, writer, last>>
reqVars == <<pc, req, loc, outcome>>
vars == <<summaries, sqlite_seq, writer, now, last, pc, req, loc, outcome, pre, ev>>

DefaultLimit == 50
ExcerptLength == 1000

\* the rowid of a table without AUTOINCREMENT: one more than the largest
\* rowid present
NextRowIdOfPresentRows(rows, seq) == SetMax({0} \cup {r.id : r \in rows}) + 1

\* the rowid AUTOINCREMENT gives the next inserted row: one more than the
\* largest rowid ever assigned (sqlite_sequence) or present in the table
NextRowId(rows, seq) == SetMax({seq} \cup {r.id : r \in rows}) + 1

\* an INSERT that binds the style column to the default style
NewRowDefaultStyle(id, a, created_at) ==
  [ id |-> id, user_id |-> a.user_id, document_name |-> a.document_name,
    document_type |-> a.document_type, original_text |-> a.original_text,
    summary |-> a.summary, summary_style |-> "bullet",
    quality_score |-> a.quality_score, created_at |-> created_at,
    file_size |-> a.file_size, processing_time |-> a.processing_time,
    word_count |-> a.word_count, summary_word_count |-> a.summary_word_count ]

\* INSERT INTO summaries (...), created_at DEFAULT CURRENT_TIMESTAMP
NewRow(id, a, created_at) ==
  [ id |-> id,
    user_id |-> a.user_id,
    document_name |-> a.document_name,
    document_type |-> a.document_type,
    original_text |-> a.original_text,
    summary |-> a.summary,
    summary_style |-> a.summary_style,
    quality_score |-> a.quality_score,
    created_at |-> created_at,
    file_size |-> a.file_size,
    processing_time |-> a.processing_time,
    word_count |-> a.word_count,
    summary_word_count |-> a.summary_word_count ]

\* SELECT * FROM summaries WHERE id = ?
get_summary_by_id(rows, summary_id) ==
  IF \E r \in rows : r.id = summary_id
  THEN Some(CHOOSE r \in rows : r.id = summary_id)
  ELSE None

\* a WHERE clause without the user_id test
UserRowsOfAnyone(rows, user_id) == rows

\* WHERE user_id = ?
UserRows(rows, user_id) == {r \in rows : r.user_id = user_id}

\* ORDER BY id DESC
LatestIdFirst(S) ==
  { q \in [1..Cardinality(S) -> S] :
      \A i, j \in 1..Cardinality(S) : i < j => q[i].id > q[j].id }

\* the orders ORDER BY created_at DESC may return a set of rows in: rows
\* with equal created_at come in an order SQL leaves open
NewestFirst(S) ==
  { q \in [1..Cardinality(S) -> S] :
      /\ \A i, j \in 1..Cardinality(S) : i # j => q[i] # q[j]
      /\ \A i, j \in 1..Cardinality(S) : i < j => q[i].created_at >= q[j].created_at }

\* LIMIT ? OFFSET ?
Window(q, limit, offset) ==
  SubSeq(q, offset + 1, IF offset + limit < Len(q) THEN offset + limit ELSE Len(q))

\* every list get_user_summaries(user_id, limit, offset) may return
get_user_summaries(rows, user_id, limit, offset) ==
  { Window(q, limit, offset) : q \in NewestFirst(UserRows(rows, user_id)) }

\* SELECT COUNT(*) ... WHERE user_id = ?
TotalSummaries(rows, user_id) == Cardinality(UserRows(rows, user_id))

\* SELECT COUNT(DISTINCT document_name) ... WHERE user_id = ?
TotalDocuments(rows, user_id) ==
  Cardinality({r.document_name : r \in UserRows(rows, user_id)})

\* SUM(quality_score) and SUM(word_count) over a set of rows
RECURSIVE SumQuality(_)
SumQuality(S) ==
  IF S = {} THEN 0
  ELSE LET r == CHOOSE x \in S : TRUE
       IN  r.quality_score + SumQuality(S \ {r})

RECURSIVE SumWords(_)
SumWords(S) ==
  IF S = {} THEN 0
  ELSE LET r == CHOOSE x \in S : TRUE
       IN  r.word_count + SumWords(S \ {r})

\* SELECT summary_style, COUNT(*) ... GROUP BY summary_style ORDER BY count
\* DESC LIMIT 1: a most frequent style (any of them on a tie), or "None"
FavoriteStyles(rows, user_id) ==
  LET mine == UserRows(rows, user_id)
      count(st) == Cardinality({r \in mine : r.summary_style = st})
  IN  IF mine = {} THEN {"None"}
      ELSE { r.summary_style : r \in
               {x \in mine : \A y \in mine : count(x.summary_style) >= count(y.summary_style)} }

\* src/database.py:178-217: every dict get_summary_statistics may return;
\* average_quality, round(avg, 2), is held in hundredths
get_summary_statistics(rows, user_id) ==
  LET mine == UserRows(rows, user_id)
      n == Cardinality(mine)
      total == SumQuality(mine)
  IN  { [ total_summaries |-> TotalSummaries(rows, user_id),
          total_documents |-> TotalDocuments(rows, user_id),
          average_quality |-> IF n = 0 THEN 0 ELSE (200 * total + n) \div (2 * n),
          favorite_style |-> st,
          total_words_processed |-> SumWords(mine) ] :
        st \in FavoriteStyles(rows, user_id) }

\* SQLite's LIKE: % stands for any run of characters, _ for any one
\* character, and letters A-Z match in either case
RECURSIVE LikeMatch(_, _)
LikeMatch(pattern, s) ==
  IF pattern = <<>> THEN s = <<>>
  ELSE IF Head(pattern) = "%"
       THEN \E k \in 0..Len(s) : LikeMatch(Tail(pattern), SubSeq(s, k + 1, Len(s)))
       ELSE /\ s # <<>>
            /\ Head(pattern) = "_" \/ Lower(Head(pattern)) = Lower(Head(s))
            /\ LikeMatch(Tail(pattern), Tail(s))

\* src/database.py:126: f"%{query}%"
SearchQuery(query) == <<"%">> \o query \o <<"%">>

\* WHERE user_id = ? AND (document_name LIKE ? OR summary LIKE ? OR
\* original_text LIKE ?)
SearchMatches(rows, user_id, query) ==
  { r \in rows :
      /\ r.user_id = user_id
      /\ \/ LikeMatch(SearchQuery(query), r.document_name)
         \/ LikeMatch(SearchQuery(query), r.summary)
         \/ LikeMatch(SearchQuery(query), r.original_text) }

\* every list search_summaries(user_id, query, limit) may return
search_summaries(rows, user_id, query, limit) ==
  { Window(q, limit, 0) : q \in NewestFirst(SearchMatches(rows, user_id, query)) }

\* WHERE user_id = ? AND created_at >= datetime('now', '-N days')
RecentMatches(rows, user_id, days, t) ==
  {r \in rows : r.user_id = user_id /\ r.created_at >= t - days}

\* every list get_recent_summaries(user_id, days) may return
get_recent_summaries(rows, user_id, days, t) ==
  NewestFirst(RecentMatches(rows, user_id, days, t))

\* a DELETE whose WHERE clause names the id alone
DeleteMatchesAnyOwner(rows, summary_id, user_id) ==
  {r \in rows : r.id = summary_id}

\* DELETE FROM summaries WHERE id = ? AND user_id = ?: the rows it removes
DeleteMatches(rows, summary_id, user_id) ==
  {r \in rows : r.id = summary_id /\ r.user_id = user_id}

\* DELETE ... WHERE user_id = ? AND created_at < datetime('now', '-N days')
CleanupMatches(rows, user_id, days, t) ==
  {r \in rows : r.user_id = user_id /\ r.created_at < t - days}


\* an UPDATE that also recounts the words of the new summary
UpdatedRowRecounting(r, summary, quality_score, t) ==
  [r EXCEPT !.summary = summary,
            !.quality_score = IF quality_score = None THEN @ ELSE quality_score[1],
            !.created_at = t,
            !.summary_word_count = WordCount(summary)]

\* an UPDATE that leaves created_at as it was
UpdatedRowKeepingTime(r, summary, quality_score, t) ==
  [r EXCEPT !.summary = summary,
            !.quality_score = IF quality_score # None THEN quality_score[1] ELSE @]

\* UPDATE summaries SET summary = ?, [quality_score = ?,] created_at =
\* CURRENT_TIMESTAMP WHERE id = ? AND user_id = ?
UpdatedRow(r, summary, quality_score, t) ==
  [r EXCEPT !.summary = summary,
            !.quality_score = IF quality_score # None THEN quality_score[1] ELSE @,
            !.created_at = t]

(***************************************************************************)
(* summarize_text and summarize_text_with_db (src/backend.py:154-361).     *)
(* Each member of Procs is one request.  A request suspends where the code *)
(* blocks: on the external generate_content call, and on the store's write *)
(* lock between its INSERT and its commit.                                 *)
(***************************************************************************)
Procs == {"p1", "p2"}
Users == {"u1", "u2"}

\* the style, user_id, document_name, document_type and file_size callers pass
Callers ==
  { [ style |-> "bullet", user_id |-> "u1", document_name |-> <<"A">>,
      document_type |-> "text", file_size |-> None ],
    [ style |-> "fancy", user_id |-> "u2", document_name |-> <<"b">>,
      document_type |-> "pdf", file_size |-> Some(8) ] }

Document == <<"a", " ", "k", "e", "y", " ", "w", ".">>

\* the texts a caller passes: empty, blank, a lone bullet mark, a document
Texts == { <<>>, <<" ", "\n">>, <<"-", " ">>, Document }

\* what model.generate_content does: raise, or return a response whose
\* .text is the given string
Responses ==
  { [kind |-> "raise", text |-> <<"quota exceeded">>],
    [kind |-> "text", text |-> <<>>],
    [kind |-> "text", text |-> <<" ">>],
    [kind |-> "text", text |-> <<"E", "r", "r", "o", "r", "s", " ", "w">>],
    [kind |-> "text", text |-> <<" ", "-", " ", "k", "e", "y", ".", "\n">>] }

\* the texts and scores a caller passes to update_summary
UpdateTexts == { <<"n", "e", "w">> }
UpdateScores == { None, Some(50) }
DayCounts == {0, 1}

ErrorWord == <<"E", "r", "r", "o", "r">>

Idle == [idle |-> TRUE]

\* lines 92-152: the template chosen and the text embedded in it
build_prompt(text, style) ==
  [ template |-> IF style \in {"bullet", "abstract", "detailed"} THEN style ELSE "generic",
    text |-> text ]

\* a summarize_text without the test of lines 172-173
SummarizeTextEarlyBlankOnly(text) ==
  IF IsBlank(text)
  THEN Some(ErrorWord \o <<": No text provided for summarization">>)
  ELSE None

\* lines 165-173: what summarize_text returns before it calls the model,
\* None when it goes on to call it
SummarizeTextEarly(text) ==
  IF IsBlank(text)
  THEN Some(ErrorWord \o <<": No text provided for summarization">>)
  ELSE IF preprocess_text(text) = <<>>
       THEN Some(ErrorWord \o <<": Text preprocessing resulted in empty content">>)
       ELSE None

\* a summarize_text that returns response.text unchecked
SummarizeTextResultUnchecked(resp) ==
  IF resp.kind = "raise"
  THEN ErrorWord \o <<" generating summary: ">> \o resp.text
  ELSE Strip(resp.text)

\* lines 199-205: what summarize_text returns once the model has answered
SummarizeTextResult(resp) ==
  IF resp.kind = "raise"
  THEN ErrorWord \o <<" generating summary: ">> \o resp.text
  ELSE IF resp.text = <<>>
       THEN ErrorWord \o <<": No summary generated. Please try again.">>
       ELSE Strip(resp.text)

\* an error report that keeps a rating of the scale
EvaluationErrorRated ==
  [ error |-> <<"Error evaluating summary: ">>, quality_score |-> 0,
    overall_rating |-> "Needs Improvement" ]

\* lines 445-450: the report of an evaluation that failed inside
EvaluationError ==
  [ error |-> <<"Error evaluating summary: ">>, quality_score |-> 0,
    overall_rating |-> "Error" ]

\* lines 291 and 382-450: the report, or the error report when the
\* evaluation fails inside
QualityMetrics(text, summary, eval_ok) ==
  IF eval_ok THEN evaluate_summary_quality(text, summary) ELSE EvaluationError

\* lines 268-272 and 279-283
Failure(error) == [success |-> FALSE, error |-> error, summary |-> None]

\* lines 299-311: the arguments of db.save_summary
SaveArguments(r, l) ==
  [ user_id |-> r.user_id,
    document_name |-> r.document_name,
    document_type |-> r.document_type,
    original_text |-> SubSeq(r.text, 1, IF Len(r.text) < ExcerptLength
                                         THEN Len(r.text) ELSE ExcerptLength),
    summary |-> l.summary,
    summary_style |-> r.style,
    quality_score |-> l.quality_metrics.quality_score,
    file_size |-> r.file_size,
    processing_time |-> l.processing_time,
    word_count |-> l.word_count,
    summary_word_count |-> l.summary_word_count ]

\* lines 313-332
Saved(l, summary_id, file_ok) ==
  [ success |-> TRUE,
    summary |-> Some(l.summary),
    summary_id |-> Some(summary_id),
    file_path |-> IF file_ok THEN Some("path") ELSE None,
    quality_metrics |-> l.quality_metrics,
    processing_time |-> l.processing_time,
    word_count |-> l.word_count,
    summary_word_count |-> l.summary_word_count,
    message |-> "Summary generated and saved successfully" ]

\* a save failure that reaches the outer handler (lines 356-361)
NotSavedAsFailure(l, file_ok) ==
  [ success |-> FALSE, error |-> <<"Error during summarization: ">>, summary |-> None ]

\* lines 344-354
NotSaved(l, file_ok) ==
  [ success |-> TRUE,
    summary |-> Some(l.summary),
    summary_id |-> None,
    file_path |-> IF file_ok THEN Some("path") ELSE None,
    quality_metrics |-> l.quality_metrics,
    processing_time |-> l.processing_time,
    word_count |-> l.word_count,
    summary_word_count |-> l.summary_word_count,
    warning |-> "Summary generated but database save failed" ]

\* a request that opens its store transaction before it calls the model
CallHoldingLock(p, text, c) ==
  /\ pc[p] = "idle"
  /\ writer = None
  /\ SummarizeTextEarly(text) = None
  /\ req' = [req EXCEPT ![p] =
               [ text |-> text, style |-> c.style, user_id |-> c.user_id,
                 document_name |-> c.document_name,
                 document_type |-> c.document_type, file_size |-> c.file_size ]]
  /\ loc' = [loc EXCEPT ![p] =
               [ start_time |-> now,
                 prompt |-> build_prompt(preprocess_text(text), c.style) ]]
  /\ pc' = [pc EXCEPT ![p] = "generating"]
  /\ writer' = Some(p)
  /\ UNCHANGED <<summaries, sqlite_seq, last, now, outcome, pre, ev>>

\* lines 265-283, up to the external call
Call(p, text, c) ==
  /\ pc[p] = "idle"
  /\ req' = [req EXCEPT ![p] =
               [ text |-> text, style |-> c.style, user_id |-> c.user_id,
                 document_name |-> c.document_name,
                 document_type |-> c.document_type, file_size |-> c.file_size ]]
  /\ IF IsBlank(text)
     THEN /\ outcome' = [outcome EXCEPT ![p] =
                           Failure(<<"No text provided for summarization">>)]
          /\ pc' = [pc EXCEPT ![p] = "done"]
          /\ loc' = loc
     ELSE IF SummarizeTextEarly(text) # None
     THEN /\ outcome' = [outcome EXCEPT ![p] = Failure(SummarizeTextEarly(text)[1])]
          /\ pc' = [pc EXCEPT ![p] = "done"]
          /\ loc' = loc
     ELSE /\ loc' = [loc EXCEPT ![p] =
                       [ start_time |-> now,
                         prompt |-> build_prompt(preprocess_text(text), c.style) ]]
          /\ pc' = [pc EXCEPT ![p] = "generating"]
          /\ outcome' = outcome
  /\ UNCHANGED <<storeVars, now, pre, ev>>

\* lines 183-205 and 276-295: the model answers; on a summary, the
\* request measures, scores and goes on to db.save_summary
GenerateReturns(p, resp, eval_ok) ==
  /\ pc[p] = "generating"
  /\ LET summary == SummarizeTextResult(resp)
     IN  IF StartsWith(summary, ErrorWord)
         THEN /\ outcome' = [outcome EXCEPT ![p] = Failure(summary)]
              /\ pc' = [pc EXCEPT ![p] = "done"]
              /\ loc' = [loc EXCEPT ![p] = Idle]
         ELSE /\ loc' = [loc EXCEPT ![p] =
                           [ start_time |-> loc[p].start_time,
                             summary |-> summary,
                             processing_time |-> now - loc[p].start_time,
                             word_count |-> WordCount(req[p].text),
                             summary_word_count |-> WordCount(summary),
                             quality_metrics |->
                                QualityMetrics(req[p].text, summary, eval_ok),
                             timestamp |-> now ]]
              /\ pc' = [pc EXCEPT ![p] = "saving"]
              /\ outcome' = outcome
  /\ UNCHANGED <<storeVars, now, req, pre, ev>>

\* writers that do not exclude one another
MayWriteUnlocked == TRUE

\* whether a connection may start writing: no other holds the write lock
MayWrite == writer = None

\* src/database.py:74-89: connect, INSERT (takes the write lock, assigns
\* the rowid), cursor.lastrowid
SaveInsert(p) ==
  /\ pc[p] = "saving"
  /\ MayWrite
  /\ writer' = Some(p)
  /\ loc' = [loc EXCEPT ![p] =
               [ row |-> NewRow(NextRowId(summaries, sqlite_seq),
                                SaveArguments(req[p], loc[p]), now) ]
               @@ loc[p]]
  /\ pc' = [pc EXCEPT ![p] = "inserted"]
  /\ UNCHANGED <<summaries, sqlite_seq, last, now, req, outcome, pre, ev>>

\* src/database.py:90-91 and src/backend.py:313-332: commit, return the
\* id, write the file (which may fail), return the outcome
SaveCommit(p, file_ok) ==
  /\ pc[p] = "inserted"
  /\ summaries' = summaries \cup {loc[p].row}
  /\ sqlite_seq' = loc[p].row.id
  /\ writer' = None
  /\ last' = [op |-> "save", result |-> loc[p].row.id]
  /\ outcome' = [outcome EXCEPT ![p] = Saved(loc[p], loc[p].row.id, file_ok)]
  /\ pc' = [pc EXCEPT ![p] = "done"]
  /\ loc' = [loc EXCEPT ![p] = Idle]
  /\ UNCHANGED <<now, req, pre, ev>>

\* db.save_summary raises (the connection fails, the lock is not had in
\* time, a statement or the commit fails): the transaction is rolled
\* back; src/backend.py:334-354
SaveRaises(p, file_ok) ==
  /\ pc[p] \in {"saving", "inserted"}
  /\ writer' = IF writer = Some(p) THEN None ELSE writer
  /\ outcome' = [outcome EXCEPT ![p] = NotSaved(loc[p], file_ok)]
  /\ pc' = [pc EXCEPT ![p] = "done"]
  /\ loc' = [loc EXCEPT ![p] = Idle]
  /\ UNCHANGED <<summaries, sqlite_seq, last, now, req, pre, ev>>

\* src/database.py:141-153
DeleteSummary(summary_id, user_id) ==
  /\ MayWrite
  /\ summaries' = summaries \ DeleteMatches(summaries, summary_id, user_id)
  /\ last' = [ op |-> "delete", summary_id |-> summary_id, user_id |-> user_id,
               result |-> Cardinality(DeleteMatches(summaries, summary_id, user_id)) > 0 ]
  /\ UNCHANGED <<sqlite_seq, writer, now, reqVars, pre, ev>>

\* src/database.py:155-176
UpdateSummary(summary_id, user_id, summary, quality_score) ==
  /\ MayWrite
  /\ summaries' =
       { IF r.id = summary_id /\ r.user_id = user_id
         THEN UpdatedRow(r, summary, quality_score, now) ELSE r : r \in summaries }
  /\ last' = [ op |-> "update",
               result |-> \E r \in summaries : r.id = summary_id /\ r.user_id = user_id ]
  /\ UNCHANGED <<sqlite_seq, writer, now, reqVars, pre, ev>>

\* src/database.py:234-246
CleanupOldSummaries(user_id, days) ==
  /\ MayWrite
  /\ summaries' = summaries \ CleanupMatches(summaries, user_id, days, now)
  /\ last' = [ op |-> "cleanup",
               result |-> Cardinality(CleanupMatches(summaries, user_id, days, now)) ]
  /\ UNCHANGED <<sqlite_seq, writer, now, reqVars, pre, ev>>

\* src/database.py:93-107
GetUserSummaries(user_id, limit, offset) ==
  /\ \E answer \in get_user_summaries(summaries, user_id, limit, offset) :
       last' = [ op |-> "list", user_id |-> user_id, limit |-> limit,
                 offset |-> offset, result |-> answer ]
  /\ UNCHANGED <<summaries, sqlite_seq, writer, now, reqVars, pre, ev>>

\* src/database.py:120-139
SearchSummaries(user_id, query, limit) ==
  /\ \E answer \in search_summaries(summaries, user_id, query, limit) :
       last' = [ op |-> "search", user_id |-> user_id, query |-> query,
                 limit |-> limit, result |-> answer ]
  /\ UNCHANGED <<summaries, sqlite_seq, writer, now, reqVars, pre, ev>>

\* src/database.py:219-232
GetRecentSummaries(user_id, days) ==
  /\ \E answer \in get_recent_summaries(summaries, user_id, days, now) :
       last' = [ op |-> "recent", user_id |-> user_id, days |-> days,
                 result |-> answer ]
  /\ UNCHANGED <<summaries, sqlite_seq, writer, now, reqVars, pre, ev>>

\* src/database.py:178-217
GetSummaryStatistics(user_id) ==
  /\ \E answer \in get_summary_statistics(summaries, user_id) :
       last' = [op |-> "statistics", user_id |-> user_id, result |-> answer]
  /\ UNCHANGED <<summaries, sqlite_seq, writer, now, reqVars, pre, ev>>

\* time passes
Tick ==
  /\ now < MaxTime
  /\ now' = now + 1
  /\ UNCHANGED <<storeVars, reqVars, pre, ev>>

\* a direct call of db.save_summary by a client of the store
\* (src/database.py:68-91), connection to commit
SaveSummary(a) ==
  /\ MayWrite
  /\ sqlite_seq < MaxSaves
  /\ LET id == NextRowId(summaries, sqlite_seq)
     IN  /\ summaries' = summaries \cup {NewRow(id, a, now)}
         /\ sqlite_seq' = id
         /\ last' = [op |-> "save", result |-> id]
  /\ UNCHANGED <<writer, now, reqVars, pre, ev>>

\* what clients save: the caller asking for bullets a bulleted summary,
\* the other caller another summary
SavedSummaries ==
  { x \in Callers \X { Strip(r.text) :
                        r \in {y \in Responses : y.kind = "text" /\ ~IsBlank(y.text)} } :
      x[1].style = "bullet" <=> StartsWith(x[2], <<"-">>) }

\* the arguments clients pass to db.save_summary
StoreArguments ==
  { [ user_id |-> x[1].user_id, document_name |-> x[1].document_name,
      document_type |-> x[1].document_type, original_text |-> Document,
      summary |-> x[2], summary_style |-> x[1].style,
      quality_score |-> evaluate_summary_quality(Document, x[2]).quality_score,
      file_size |-> x[1].file_size, processing_time |-> 0,
      word_count |-> WordCount(Document),
      summary_word_count |-> WordCount(x[2]) ] :
    x \in SavedSummaries }

\* the summaries.db file the store opens: new, or left by earlier runs
\* with one row
EarlierRow ==
  NewRow(1, CHOOSE a \in StoreArguments :
              a.user_id = "u1" /\ StartsWith(a.summary, <<"-">>), 0)

InitStore ==
  \/ summaries = {} /\ sqlite_seq = 0
  \/ summaries = {EarlierRow} /\ sqlite_seq = 1

Init ==
  /\ InitStore
  /\ writer = None
  /\ now = 0
  /\ last = [op |-> "none"]
  /\ pc = [p \in Procs |-> "idle"]
  /\ req = [p \in Procs |-> Idle]
  /\ loc = [p \in Procs |-> Idle]
  /\ outcome = [p \in Procs |-> Idle]
  /\ pre = Idle
  /\ ev = Idle

\* concurrent requests of summarize_text_with_db whose evaluation works,
\* and deletions
Next ==
  \/ \E p \in Procs, text \in Texts, c \in Callers : Call(p, text, c)
  \/ \E p \in Procs, resp \in Responses : GenerateReturns(p, resp, TRUE)
  \/ \E p \in Procs : SaveInsert(p)
  \/ \E p \in Procs, file_ok \in BOOLEAN : SaveCommit(p, file_ok)
  \/ \E p \in Procs, file_ok \in BOOLEAN : SaveRaises(p, file_ok)
  \/ \E summary_id \in 1..MaxId, user_id \in Users : DeleteSummary(summary_id, user_id)
  \/ Tick

Spec == Init /\ [][Next]_vars

\* concurrent requests alone, with evaluations that fail inside
NextSaves ==
  \/ \E p \in Procs, text \in Texts, c \in Callers : Call(p, text, c)
  \/ \E p \in Procs, resp \in Responses, eval_ok \in BOOLEAN :
       GenerateReturns(p, resp, eval_ok)
  \/ \E p \in Procs : SaveInsert(p)
  \/ \E p \in Procs, file_ok \in BOOLEAN : SaveCommit(p, file_ok)
  \/ \E p \in Procs, file_ok \in BOOLEAN : SaveRaises(p, file_ok)
  \/ Tick

SpecSaves == Init /\ [][NextSaves]_vars

\* the store's clients calling its methods
NextStore ==
  \/ \E a \in StoreArguments : SaveSummary(a)
  \/ \E summary_id \in 1..MaxId, user_id \in Users : DeleteSummary(summary_id, user_id)
  \/ \E summary_id \in 1..MaxId, user_id \in Users, summary \in UpdateTexts,
        quality_score \in UpdateScores :
       UpdateSummary(summary_id, user_id, summary, quality_score)
  \/ \E user_id \in Users, days \in DayCounts : CleanupOldSummaries(user_id, days)
  \/ Tick

SpecStore == Init /\ [][NextStore]_vars

\* the queries, limits and offsets readers pass
Queries == { <<"B">>, <<"K", "E", "Y">>, <<"_">>, <<"z">> }
Limits == {1, 2}
Offsets == {0, 1}

\* clients saving and updating summaries, and readers
NextReads ==
  \/ \E a \in StoreArguments : SaveSummary(a)
  \/ \E summary_id \in 1..MaxId, user_id \in Users, summary \in UpdateTexts :
       UpdateSummary(summary_id, user_id, summary, None)
  \/ \E user_id \in Users, limit \in Limits, offset \in Offsets :
       GetUserSummaries(user_id, limit, offset)
  \/ \E user_id \in Users, query \in Queries, limit \in Limits :
       SearchSummaries(user_id, query, limit)
  \/ \E user_id \in Users, days \in DayCounts : GetRecentSummaries(user_id, days)
  \/ \E user_id \in Users : GetSummaryStatistics(user_id)
  \/ Tick

SpecReads == Init /\ [][NextReads]_vars

\* every method of the store called by its clients: the writes and the reads
NextFrame ==
  \/ \E a \in StoreArguments : SaveSummary(a)
  \/ \E summary_id \in 1..MaxId, user_id \in Users : DeleteSummary(summary_id, user_id)
  \/ \E summary_id \in 1..MaxId, user_id \in Users, summary \in UpdateTexts,
        quality_score \in UpdateScores :
       UpdateSummary(summary_id, user_id, summary, quality_score)
  \/ \E user_id \in Users, days \in DayCounts : CleanupOldSummaries(user_id, days)
  \/ \E user_id \in Users : GetUserSummaries(user_id, DefaultLimit, 0)
  \/ \E user_id \in Users : SearchSummaries(user_id, <<"K", "E", "Y">>, DefaultLimit)
  \/ \E user_id \in Users, days \in DayCounts : GetRecentSummaries(user_id, days)
  \/ \E user_id \in Users : GetSummaryStatistics(user_id)
  \/ Tick

SpecFrame == Init /\ [][NextFrame]_vars

(***************************************************************************)
(* The HTTP service's history and search operations                        *)
(* (src/fastapi_app.py:175-233) over the backend's wrappers                *)
(* (src/backend.py:472-497).  A call either returns a value or raises; a   *)
(* value is a list or the coroutine object that calling an `async def'     *)
(* gives.                                                                  *)
(***************************************************************************)
Returns(v) == [raised |-> FALSE, value |-> v]
Raises(e) == [raised |-> TRUE, exception |-> e]

ListValue(items) == [type |-> "list", items |-> items]
CoroutineValue == [type |-> "coroutine"]

\* len(v): defined for a list, TypeError for a coroutine object
PyLen(v) == IF v.type = "list" THEN Returns(Len(v.items)) ELSE Raises("TypeError")

\* src/backend.py:472-477: def get_user_summary_history(user_id, limit=20),
\* called with the positional arguments args; more arguments than
\* parameters raise TypeError at the call, outside the function's try
get_user_summary_history(rows, args) ==
  IF Len(args) < 1 \/ Len(args) > 2
  THEN { Raises("TypeError") }
  ELSE { Returns(ListValue(a)) :
           a \in get_user_summaries(rows, args[1],
                                    IF Len(args) = 2 THEN args[2] ELSE 20, 0) }

\* src/backend.py:492-497: def search_user_summaries(user_id, query, limit=20)
backend_search_user_summaries(rows, args) ==
  IF Len(args) < 2 \/ Len(args) > 3
  THEN { Raises("TypeError") }
  ELSE { Returns(ListValue(a)) :
           a \in search_summaries(rows, args[1], args[2],
                                  IF Len(args) = 3 THEN args[3] ELSE 20) }

\* the bindings src/fastapi_app.py gives its global names, in the order of
\* the module's text: the import of line 5, then the handlers the module
\* defines (lines 176 and 214)
ModuleBindings ==
  << [name |-> "get_user_summary_history", to |-> "backend.get_user_summary_history"],
     [name |-> "search_user_summaries", to |-> "backend.search_user_summaries"],
     [name |-> "get_user_summaries", to |-> "fastapi_app.get_user_summaries"],
     [name |-> "search_user_summaries", to |-> "fastapi_app.search_user_summaries"] >>

\* what a global name is bound to when a handler runs: its last binding
Global(name) ==
  LET at == { i \in 1..Len(ModuleBindings) : ModuleBindings[i].name = name }
  IN  ModuleBindings[SetMax(at)].to

\* the results of calling the function a name is bound to
CallGlobal(name, rows, args) ==
  LET f == Global(name)
  IN  IF f = "backend.get_user_summary_history" THEN get_user_summary_history(rows, args)
      ELSE IF f = "backend.search_user_summaries"
           THEN backend_search_user_summaries(rows, args)
           ELSE { Returns(CoroutineValue) }

Ok(body) == [status |-> 200, body |-> body]
ServerError(detail) == [status |-> 500, detail |-> detail]

\* src/fastapi_app.py:188-195: the responses of GET /user/{user_id}/summaries
GetUserSummariesResponses(rows, user_id, limit, offset) ==
  { IF c.raised
    THEN ServerError("Error retrieving summaries: ")
    ELSE Ok(c.value.items) :
    c \in CallGlobal("get_user_summary_history", rows, <<user_id, limit, offset>>) }

\* src/fastapi_app.py:226-233: the responses of GET /user/{user_id}/search
SearchUserSummariesResponses(rows, user_id, query, limit) ==
  { IF c.raised \/ PyLen(c.value).raised
    THEN ServerError("Error searching summaries: ")
    ELSE Ok([ results |-> c.value.items, query |-> query,
              count |-> PyLen(c.value).value ]) :
    c \in CallGlobal("search_user_summaries", rows, <<user_id, query, limit>>) }

\* GET /user/{user_id}/summaries?limit=&offset=
HttpGetUserSummaries(user_id, limit, offset) ==
  /\ \E response \in GetUserSummariesResponses(summaries, user_id, limit, offset) :
       last' = [ op |-> "GET summaries", user_id |-> user_id, limit |-> limit,
                 offset |-> offset, response |-> response ]
  /\ UNCHANGED <<summaries, sqlite_seq, writer, now, reqVars, pre, ev>>

\* GET /user/{user_id}/search?query=&limit=
HttpSearchUserSummaries(user_id, query, limit) ==
  /\ \E response \in SearchUserSummariesResponses(summaries, user_id, query, limit) :
       last' = [ op |-> "GET search", user_id |-> user_id, query |-> query,
                 limit |-> limit, response |-> response ]
  /\ UNCHANGED <<summaries, sqlite_seq, writer, now, reqVars, pre, ev>>

\* clients saving summaries and HTTP clients reading them
NextHttp ==
  \/ \E a \in StoreArguments : SaveSummary(a)
  \/ \E summary_id \in 1..MaxId, user_id \in Users, summary \in UpdateTexts :
       UpdateSummary(summary_id, user_id, summary, None)
  \/ \E user_id \in Users, limit \in Limits, offset \in Offsets :
       HttpGetUserSummaries(user_id, limit, offset)
  \/ \E user_id \in Users, query \in Queries, limit \in Limits :
       HttpSearchUserSummaries(user_id, query, limit)
  \/ Tick

SpecHttp == Init /\ [][NextHttp]_vars

(***************************************************************************)
(* preprocess_text applied to every text of at most MaxTokens tokens, and  *)
(* then to its own result.                                                 *)
(***************************************************************************)
Tokens ==
  { <<"a">>, <<"A">>, <<"0">>, <<"1">>, <<" ">>, <<"\n">>, <<"|">>, <<"-">>,
    <<".">>, <<Bullet>>, PageWord }

RECURSIVE Flatten(_)
Flatten(ts) == IF ts = <<>> THEN <<>> ELSE Head(ts) \o Flatten(Tail(ts))

RawTexts == { Flatten(ts) : ts \in UNION { [1..n -> Tokens] : n \in 0..MaxTokens } }

IdleStore ==
  /\ summaries = {}
  /\ sqlite_seq = 0
  /\ writer = None
  /\ now = 0
  /\ last = [op |-> "none"]
  /\ pc = [p \in Procs |-> "idle"]
  /\ req = [p \in Procs |-> Idle]
  /\ loc = [p \in Procs |-> Idle]
  /\ outcome = [p \in Procs |-> Idle]

InitPre ==
  /\ IdleStore
  /\ ev = Idle
  /\ \E raw \in RawTexts : pre = [at |-> "raw", raw |-> raw]

PreprocessOnce ==
  /\ pre.at = "raw"
  /\ pre' = [at |-> "once", raw |-> pre.raw, once |-> preprocess_text(pre.raw)]
  /\ UNCHANGED <<storeVars, now, reqVars, ev>>

PreprocessTwice ==
  /\ pre.at = "once"
  /\ pre' = [at |-> "twice", raw |-> pre.raw, once |-> pre.once,
             twice |-> preprocess_text(pre.once)]
  /\ UNCHANGED <<storeVars, now, reqVars, ev>>

NextPre == PreprocessOnce \/ PreprocessTwice

SpecPre == InitPre /\ [][NextPre]_vars

(***************************************************************************)
(* evaluate_summary_quality applied to originals of a given number of      *)
(* words and summaries of a given number of words, built from a first      *)
(* word, a second word, filler words, a last word with or without a        *)
(* period, and the blank that separates them.                              *)
(***************************************************************************)
Repeat(u, n) == [i \in 1..(n * Len(u)) |-> u[((i - 1) % Len(u)) + 1]]

OriginalWordCounts == {0, 5, 20, 60, 61, 100, 200, 500}
SummaryWordCounts == {3, 5, 8, 19, 20, 49, 50, 60, 80, 200}

FirstWords ==
  { <<"w">>, <<"k", "e", "y">>, <<"k", "e", "y", ".">>,
    <<"M", "a", "i", "n", "l", "y">> }
SecondWords == { <<"w">>, <<"-">>, <<Bullet>> }
Stops == { <<>>, <<".">> }
Separators == { " ", "\n" }

OriginalOf(n) == Repeat(<<"w", " ">>, n)

SummaryOf(n, first, second, stop, sep) ==
  first \o <<sep>> \o second \o <<sep>> \o Repeat(<<"w", sep>>, n - 3) \o <<"w">> \o stop

\* texts without a word
WordlessTexts == { <<>>, <<" ">>, <<"\n">>, <<" ", "\n", " ">> }

\* the texts evaluated against themselves
SameTexts ==
  WordlessTexts
  \cup { SummaryOf(n, first, second, stop, sep) :
           n \in SummaryWordCounts, first \in FirstWords, second \in SecondWords,
           stop \in Stops, sep \in Separators }

InitEval ==
  /\ IdleStore
  /\ pre = Idle
  /\ \/ \E o \in OriginalWordCounts, n \in SummaryWordCounts, first \in FirstWords,
           second \in SecondWords, stop \in Stops, sep \in Separators :
          ev = [ at |-> "args", original_text |-> OriginalOf(o),
                 summary |-> SummaryOf(n, first, second, stop, sep) ]
     \/ \E text \in SameTexts :
          ev = [ at |-> "args", original_text |-> text, summary |-> text ]

Evaluate ==
  /\ ev.at = "args"
  /\ ev' = [ at |-> "evaluated", original_text |-> ev.original_text,
             summary |-> ev.summary,
             report |-> evaluate_summary_quality(ev.original_text, ev.summary) ]
  /\ UNCHANGED <<storeVars, now, reqVars, pre>>

NextEval == Evaluate

SpecEval == InitEval /\ [][NextEval]_vars

(***************************************************************************)
(* Properties of summarize_text_with_db and the store.                     *)
(***************************************************************************)
Returned(p) == "success" \in DOMAIN outcome[p]

HasId(p) ==
  /\ Returned(p)
  /\ "summary_id" \in DOMAIN outcome[p]
  /\ outcome[p].summary_id # None

InAnswer(r, answer) == \E k \in 1..Len(answer) : answer[k] = r

\* C1: a call whose generator fails (the text is blank or normalizes to
\* nothing, or the external call raises or returns no text) returns
\* success = False with the error, goes no further (never calls
\* save_summary), and leaves the store as it was.
C1_GeneratorFailurePersistsNothing ==
  [][\A p \in Procs :
       ( \/ /\ pc[p] = "idle" /\ pc'[p] # "idle"
            /\ (IsBlank(req'[p].text) \/ preprocess_text(req'[p].text) = <<>>)
         \/ \E resp \in Responses :
              /\ resp.kind = "raise" \/ resp.text = <<>>
              /\ GenerateReturns(p, resp, TRUE) )
       => /\ pc'[p] = "done"
          /\ "success" \in DOMAIN outcome'[p]
          /\ outcome'[p].success = FALSE
          /\ "error" \in DOMAIN outcome'[p]
          /\ outcome'[p].error # <<>>
          /\ outcome'[p].summary = None
          /\ summaries' = summaries
          /\ sqlite_seq' = sqlite_seq
          /\ writer' = writer]_vars

C1_Witness ==
  \E p \in Procs :
    /\ pc[p] = "done"
    /\ req[p].text = Document
    /\ Returned(p)
    /\ ~outcome[p].success
    /\ StartsWith(outcome[p].error, ErrorWord)
    /\ summaries = {EarlierRow}

\* C2: when generation succeeds and save_summary raises, the outcome has
\* success = True, the generated summary, the quality report, summary_id =
\* None and a warning, and the store holds no new record.
C2_SaveFailureIsAWarning ==
  [][\A p \in Procs :
       (\E file_ok \in BOOLEAN : SaveRaises(p, file_ok))
       => /\ "success" \in DOMAIN outcome'[p]
          /\ outcome'[p].success = TRUE
          /\ outcome'[p].summary = Some(loc[p].summary)
          /\ outcome'[p].quality_metrics =
               evaluate_summary_quality(req[p].text, loc[p].summary)
          /\ outcome'[p].summary_id = None
          /\ "warning" \in DOMAIN outcome'[p]
          /\ "error" \notin DOMAIN outcome'[p]
          /\ summaries' = summaries]_vars

C2_Witness ==
  \E p \in Procs :
    /\ pc[p] = "done"
    /\ Returned(p)
    /\ outcome[p].success
    /\ "warning" \in DOMAIN outcome[p]
    /\ outcome[p].summary_id = None
    /\ outcome[p].summary # Some(<<>>)
    /\ \A r \in summaries : r = EarlierRow

\* C3: when a call for user u returns summary_id = i, not None, then
\* get_summary_by_id(i) is a record with the call's user_id, document_name
\* and style and the returned summary, every answer of
\* get_user_summaries(u) holds it, and total_summaries of u is one more
\* than it was before the call's save.
C3_SavedRecordIsRetrievable ==
  [][\A p \in Procs :
       (pc[p] # "done" /\ pc'[p] = "done"
          /\ "summary_id" \in DOMAIN outcome'[p] /\ outcome'[p].summary_id # None)
       => LET o == outcome'[p]
              u == req[p].user_id
              got == get_summary_by_id(summaries', o.summary_id[1])
          IN  /\ o.success
              /\ got # None
              /\ got[1].user_id = u
              /\ got[1].document_name = req[p].document_name
              /\ got[1].summary_style = req[p].style
              /\ Some(got[1].summary) = o.summary
              /\ \A answer \in get_user_summaries(summaries', u, DefaultLimit, 0) :
                   InAnswer(got[1], answer)
              /\ \A before \in get_summary_statistics(summaries, u),
                    after \in get_summary_statistics(summaries', u) :
                   after.total_summaries = before.total_summaries + 1]_vars

C3_Witness ==
  \E p \in Procs :
    /\ HasId(p)
    /\ req[p].style = "fancy"
    /\ get_summary_by_id(summaries, outcome[p].summary_id[1]) # None
    /\ get_summary_by_id(summaries, outcome[p].summary_id[1])[1].summary_style = "fancy"
    /\ TotalSummaries(summaries, req[p].user_id) = 2

\* C4: for a stored record i of user u and any other user v,
\* delete_summary(i, v) returns False and changes nothing: the record is
\* still what get_summary_by_id(i) returns and in every answer of
\* get_user_summaries(u).
C4_DeleteByAnotherUserFails ==
  [][\A i \in 1..MaxId, v \in Users :
       \A r \in summaries :
         (r.id = i /\ r.user_id # v /\ DeleteSummary(i, v))
         => /\ last'.result = FALSE
            /\ summaries' = summaries
            /\ get_summary_by_id(summaries', i) = Some(r)
            /\ \A answer \in get_user_summaries(summaries', r.user_id, DefaultLimit, 0) :
                 InAnswer(r, answer)]_vars

C4_Witness ==
  /\ last.op = "delete"
  /\ last.result = FALSE
  /\ \E r \in summaries : r.id = last.summary_id /\ r.user_id # last.user_id

\* C5: the ids concurrent save_summary calls return are pairwise distinct,
\* the record of each is retrievable afterwards with what that call saved
\* and is the only record of its id, and a record stored earlier is kept.
C5_ConcurrentSavesKeepEveryRecord ==
  /\ \A p, q \in Procs :
       (p # q /\ HasId(p) /\ HasId(q)) => outcome[p].summary_id # outcome[q].summary_id
  /\ \A p \in Procs :
       HasId(p) =>
         LET got == get_summary_by_id(summaries, outcome[p].summary_id[1])
         IN  /\ got # None
             /\ got[1].user_id = req[p].user_id
             /\ got[1].document_name = req[p].document_name
             /\ Some(got[1].summary) = outcome[p].summary
             /\ Cardinality({r \in summaries : r.id = got[1].id}) = 1
  /\ (sqlite_seq >= 1 /\ \A p \in Procs : HasId(p) => outcome[p].summary_id[1] # 1)
       => EarlierRow \in summaries

C5_Witness ==
  /\ \A p \in Procs : HasId(p)
  /\ Cardinality(summaries) = 3
  /\ \E p, q \in Procs : p # q /\ req[p].user_id = req[q].user_id

\* C15: for a text that is blank, or whose preprocess_text result is empty,
\* summarize_text returns an empty-input error and the request never
\* reaches the external model.
C15_EmptyInputNeverGenerates ==
  \A p \in Procs :
    ( /\ pc[p] # "idle"
      /\ \/ \A i \in 1..Len(req[p].text) : req[p].text[i] \in {" ", "\n", "\t", "\r"}
         \/ preprocess_text(req[p].text) = <<>> )
    => /\ pc[p] = "done"
       /\ outcome[p].success = FALSE
       /\ SummarizeTextEarly(req[p].text) # None
       /\ SummarizeTextEarly(req[p].text)[1] \in
            { ErrorWord \o <<": No text provided for summarization">>,
              ErrorWord \o <<": Text preprocessing resulted in empty content">> }

\* a lone bullet mark: not blank, and nothing once preprocessed
C15_Witness ==
  \E p \in Procs :
    /\ pc[p] = "done"
    /\ req[p].text = <<"-", " ">>
    /\ outcome[p].success = FALSE
    /\ outcome[p].error = ErrorWord \o <<": Text preprocessing resulted in empty content">>

\* C16: an evaluation that fails inside gives a report with quality_score
\* 0, overall_rating "Error" and an error note, the request goes on to the
\* save, and its outcome has success = True with the generated summary.
C16_EvaluationFailureKeepsSummary ==
  [][\A p \in Procs :
       /\ (\E resp \in Responses :
             /\ GenerateReturns(p, resp, FALSE)
             /\ ~StartsWith(SummarizeTextResult(resp), ErrorWord))
          => /\ pc'[p] = "saving"
             /\ loc'[p].quality_metrics.quality_score = 0
             /\ loc'[p].quality_metrics.overall_rating = "Error"
             /\ "error" \in DOMAIN loc'[p].quality_metrics
             /\ loc'[p].quality_metrics.error # <<>>
       /\ ( /\ pc[p] \in {"saving", "inserted"}
            /\ "error" \in DOMAIN loc[p].quality_metrics
            /\ pc'[p] = "done" )
          => /\ outcome'[p].success = TRUE
             /\ outcome'[p].summary = Some(loc[p].summary)
             /\ outcome'[p].quality_metrics = loc[p].quality_metrics]_vars

\* a request whose evaluation failed and whose summary was saved
C16_Witness ==
  \E p \in Procs :
    /\ HasId(p)
    /\ outcome[p].success
    /\ outcome[p].summary # None
    /\ outcome[p].quality_metrics.overall_rating = "Error"
    /\ \E r \in summaries : r.id = outcome[p].summary_id[1] /\ r.quality_score = 0

\* C17: the processing_time of an outcome is measured end to end: it is
\* the time from the call to the end of the save attempt, and it is in the
\* outcome whether the save succeeded or failed.
C17_ProcessingTimeIsEndToEnd ==
  [][\A p \in Procs :
       (pc[p] \in {"saving", "inserted"} /\ pc'[p] = "done")
       => /\ "processing_time" \in DOMAIN outcome'[p]
          /\ outcome'[p].processing_time = now - loc[p].start_time]_vars

\* an outcome with an error or warning indication: success = False with an
\* error, a warning, or the error note of the quality report
ShowsFailure(o) ==
  \/ ~o.success /\ "error" \in DOMAIN o /\ o.error # <<>>
  \/ "warning" \in DOMAIN o
  \/ "quality_metrics" \in DOMAIN o /\ "error" \in DOMAIN o.quality_metrics

\* the upstream call raised or returned no usable text
NoUsableText(resp) ==
  \/ resp.kind = "raise"
  \/ \A i \in 1..Len(resp.text) : resp.text[i] \in {" ", "\n", "\t", "\r"}

\* C18: every failure during a call (of the generation, the evaluation,
\* the store save, the summary file) shows in the call's outcome as an
\* error or warning indication.
C18_FailuresShowInOutcome ==
  [][\A p \in Procs :
       /\ (\E resp \in Responses, eval_ok \in BOOLEAN :
             NoUsableText(resp) /\ GenerateReturns(p, resp, eval_ok))
          => (pc'[p] = "done" /\ ShowsFailure(outcome'[p]))
       /\ (pc[p] # "done" /\ pc'[p] = "done") =>
            /\ pc[p] \in {"idle", "generating"} => ShowsFailure(outcome'[p])
            /\ (pc[p] \in {"saving", "inserted"} /\ "error" \in DOMAIN loc[p].quality_metrics)
                 => ShowsFailure(outcome'[p])
            /\ (\E file_ok \in BOOLEAN : SaveRaises(p, file_ok)) => ShowsFailure(outcome'[p])
            /\ (SaveRaises(p, FALSE) \/ SaveCommit(p, FALSE)) => ShowsFailure(outcome'[p])]_vars

\* C26: no request holds the store's write lock while its generation call
\* is pending, and a request's steps up to the return of that call leave
\* the store as it is; so while one request waits for the model another
\* request's save can take the lock unless a third party holds it, and a
\* delete can run whenever no save is between INSERT and commit.
C26_NoStoreLockWhileGenerating ==
  /\ [](\A p \in Procs :
          /\ pc[p] \in {"idle", "generating"} => writer # Some(p)
          /\ pc[p] = "generating" =>
               /\ \A q \in Procs : pc[q] = "saving" => ENABLED SaveInsert(q)
               /\ (\A q \in Procs : pc[q] # "inserted") =>
                    \A summary_id \in 1..MaxId, user_id \in Users :
                      ENABLED DeleteSummary(summary_id, user_id))
  /\ [][\A p \in Procs :
          (pc[p] \in {"idle", "generating"} /\ pc'[p] # pc[p]) =>
            UNCHANGED <<summaries, sqlite_seq, writer, last>>]_vars

\* one request waits for the model while the other has inserted and
\* committed its record in the meantime
C26_Witness ==
  /\ pc["p1"] = "generating"
  /\ pc["p2"] = "done"
  /\ HasId("p2")
  /\ loc["p1"].start_time = 0
  /\ \E r \in summaries : r.id = outcome["p2"].summary_id[1] /\ r.created_at > 0

\* the errors of a request whose input was blank or normalized to
\* nothing, or whose generation call raised or returned no text
GeneratorFailures ==
  { <<"No text provided for summarization">>,
    ErrorWord \o <<": No text provided for summarization">>,
    ErrorWord \o <<": Text preprocessing resulted in empty content">>,
    ErrorWord \o <<": No summary generated. Please try again.">> }
  \cup { ErrorWord \o <<" generating summary: ">> \o resp.text :
           resp \in {r \in Responses : r.kind = "raise"} }

\* C29: summarize_text_with_db reports success = False only for a blank
\* input, an input normalized to nothing, or a generation call that raised
\* or returned no text; when the model returns a non-blank text t,
\* whatever it says, the request goes on to save with summary = t trimmed,
\* and its outcome is success = True with that summary.
C29_NonBlankResponseSucceeds ==
  /\ [](\A p \in Procs :
          Returned(p) =>
            IF outcome[p].success
            THEN outcome[p].summary # None
            ELSE outcome[p].error \in GeneratorFailures)
  /\ [][\A p \in Procs :
          (pc[p] = "generating" /\ pc'[p] # "generating") =>
            \/ /\ pc'[p] = "saving"
               /\ \E resp \in Responses :
                    resp.kind = "text" /\ loc'[p].summary = Strip(resp.text)
            \/ /\ pc'[p] = "done"
               /\ ~outcome'[p].success
               /\ outcome'[p].error \in GeneratorFailures]_vars

\* C30: every outcome with success = True carries a non-empty summary and
\* every record persisted has a non-empty summary: an upstream response
\* of no usable text (empty or whitespace only) gives a failure and no
\* record.
C30_SuccessHasNonEmptySummary ==
  /\ \A p \in Procs :
       (Returned(p) /\ outcome[p].success) =>
         (outcome[p].summary # None /\ outcome[p].summary[1] # <<>>)
  /\ \A r \in summaries : r.summary # <<>>

(***************************************************************************)
(* Properties of preprocess_text.                                          *)
(***************************************************************************)
\* C6: preprocess_text is idempotent: applied to its own result it returns
\* that result.
C6_PreprocessIdempotent ==
  pre.at = "twice" => pre.twice = pre.once

\* C14: for an input that is empty or holds whitespace characters only,
\* preprocess_text returns the empty string.
C14_BlankInputGivesEmpty ==
  ( /\ pre.at \in {"once", "twice"}
    /\ \A i \in 1..Len(pre.raw) : pre.raw[i] \in {" ", "\n", "\t", "\r"} )
  => pre.once = <<>>

\* blanks and newlines
C14_Witness ==
  /\ pre.at = "once"
  /\ pre.raw = <<" ", "\n", "\n", " ">>
  /\ pre.once = <<>>

\* a vertical bar between two word characters at position i of s
BarBetweenWords(s, i) ==
  /\ 1 < i /\ i < Len(s)
  /\ s[i] = "|" /\ IsWord(s[i - 1]) /\ IsWord(s[i + 1])

\* a digit 0 between two word characters at position i of s
ZeroBetweenWords(s, i) ==
  /\ 1 < i /\ i < Len(s)
  /\ s[i] = "0" /\ IsWord(s[i - 1]) /\ IsWord(s[i + 1])

\* C27: for every input in which a vertical bar stands directly between
\* two word characters, the output of preprocess_text has the letter l in
\* place of that bar ("a|b" becomes "alb"): the inputs tried hold no l of
\* their own, so the output holds an l, and no bar between word
\* characters.
C27_BarBetweenWordsBecomesL ==
  (pre.at # "raw" /\ \E i \in 1..Len(pre.raw) : BarBetweenWords(pre.raw, i)) =>
    /\ "l" \in Range(pre.once)
    /\ \A i \in 1..Len(pre.once) : ~BarBetweenWords(pre.once, i)

\* C28: in the output of preprocess_text no digit 0 stands directly
\* between two word characters: every such 0 of the input was replaced by
\* the letter o.
C28_NoZeroBetweenWords ==
  pre.at # "raw" => \A i \in 1..Len(pre.once) : ~ZeroBetweenWords(pre.once, i)

(***************************************************************************)
(* Properties of evaluate_summary_quality.  The signals are restated here  *)
(* from the words and characters of the two texts.                         *)
(***************************************************************************)
Evaluated == ev.at = "evaluated"

OriginalWords == WordCount(ev.original_text)
SummaryWords == WordCount(ev.summary)

\* 0.05 <= r <= 0.4 for r = SummaryWords / OriginalWords, r = 0 without words
RatioInRange ==
  /\ OriginalWords > 0
  /\ 20 * SummaryWords >= OriginalWords
  /\ 5 * SummaryWords <= 2 * OriginalWords

\* r < 0.05
RatioBelowRange == OriginalWords = 0 \/ 20 * SummaryWords < OriginalWords

HasCharacter(cs) == \E i \in 1..Len(ev.summary) : ev.summary[i] \in cs

HasIndicatorWord ==
  \E indicator \in key_indicators : Contains(indicator, LowerStr(ev.summary))

Periods == Cardinality({i \in 1..Len(ev.summary) : ev.summary[i] = "."})

\* the points of the four signals other than compression
OtherPoints ==
    (IF HasIndicatorWord THEN 20 ELSE 0)
  + (IF HasCharacter({Bullet, "-", "\n"}) THEN 15 ELSE 0)
  + (IF SummaryWords >= 50 THEN 20 ELSE 0)
  + (IF Periods >= 1 THEN 20 ELSE 0)

\* C7: the quality_score is in 0..100 and the rating is the score's:
\* "Excellent" from 80, "Good" from 60 to 79, "Fair" from 40 to 59 and
\* "Needs Improvement" below 40.
C7_ScoreRangeAndRating ==
  Evaluated =>
    LET score == ev.report.quality_score
        rating == ev.report.overall_rating
    IN  /\ score \in 0..100
        /\ score >= 80 => rating = "Excellent"
        /\ (60 <= score /\ score < 80) => rating = "Good"
        /\ (40 <= score /\ score < 60) => rating = "Fair"
        /\ score < 40 => rating = "Needs Improvement"

C7_Witness ==
  /\ Evaluated
  /\ ev.report.quality_score = 80
  /\ ev.report.overall_rating = "Excellent"

\* C8: the score holds the 25 compression points exactly when
\* 0.05 <= r <= 0.4, both bounds included, where r is the summary's word
\* count over the original's and 0 when the original has no words.
C8_CompressionPoints ==
  Evaluated =>
    /\ ev.report.quality_score - OtherPoints = (IF RatioInRange THEN 25 ELSE 0)
    /\ InAnswer("Good compression ratio", ev.report.feedback) <=> RatioInRange

C8_Witness ==
  /\ Evaluated
  /\ OriginalWords = 60
  /\ SummaryWords = 3
  /\ ev.report.quality_score - OtherPoints = 25

\* C9: when all five signals hold (ratio in [0.05, 0.4], an indicator
\* word, a bullet, hyphen or newline, at least 50 words, at least 2 period
\* segments) the score is 100 and the rating "Excellent".
C9_AllSignalsGiveFullScore ==
  Evaluated =>
    ( ( /\ RatioInRange
        /\ HasIndicatorWord
        /\ HasCharacter({Bullet, "-", "\n"})
        /\ SummaryWords >= 50
        /\ Periods >= 1 )
      => /\ ev.report.quality_score = 100
         /\ ev.report.overall_rating = "Excellent" )

\* the 500-word original and the 60-word bulleted summary with "key" and
\* two sentences
C9_Witness ==
  /\ Evaluated
  /\ ev.original_text = OriginalOf(500)
  /\ ev.summary = SummaryOf(60, <<"k", "e", "y", ".">>, <<Bullet>>, <<".">>, " ")
  /\ Periods = 2
  /\ ev.report.quality_score = 100
  /\ ev.report.overall_rating = "Excellent"

\* ratio < 0.05, fewer than 20 words, no period, bullet, hyphen or newline
BriefAndPlain ==
  /\ RatioBelowRange
  /\ SummaryWords < 20
  /\ ~HasCharacter({".", Bullet, "-", "\n"})

\* C10: for a summary with ratio < 0.05, fewer than 20 words and no period,
\* bullet, hyphen or newline, the rating is "Needs Improvement" and the
\* suggestions include the 'Detailed' style; the score is 0 when the
\* summary holds no indicator word and 20 when it holds one.
C10_BriefPlainSummary ==
  Evaluated =>
    ( BriefAndPlain
      => /\ ev.report.quality_score = (IF HasIndicatorWord THEN 20 ELSE 0)
         /\ ev.report.overall_rating = "Needs Improvement"
         /\ InAnswer("Try 'Detailed' style for more comprehensive summary",
                     ev.report.suggestions) )

\* the 200-word original and a 5-word summary of plain words
C10_Witness ==
  /\ Evaluated
  /\ OriginalWords = 200
  /\ SummaryWords = 5
  /\ BriefAndPlain
  /\ ~HasIndicatorWord
  /\ ev.report.quality_score = 0
  /\ InAnswer("Try 'Detailed' style for more comprehensive summary",
              ev.report.suggestions)

\* C10 as stated: every such summary has score 0
C10_BriefPlainSummaryScoresZero ==
  Evaluated =>
    ( BriefAndPlain
      => /\ ev.report.quality_score = 0
         /\ ev.report.overall_rating = "Needs Improvement"
         /\ InAnswer("Try 'Detailed' style for more comprehensive summary",
                     ev.report.suggestions) )

\* C11: a text evaluated against itself gets no compression points and a
\* score of at most 75, the sum of the indicator, structure, length and
\* sentence signals; the reported compression ratio is 100.0 percent when
\* the text has a word and 0.0 percent when it has none.
C11_SameTextEvaluation ==
  (Evaluated /\ ev.summary = ev.original_text) =>
    /\ ev.report.compression_ratio = (IF OriginalWords > 0 THEN 1000 ELSE 0)
    /\ ~InAnswer("Good compression ratio", ev.report.feedback)
    /\ ev.report.quality_score = OtherPoints
    /\ ev.report.quality_score <= 75

\* a text of 50 words with every signal but compression
C11_Witness ==
  /\ Evaluated
  /\ ev.summary = ev.original_text
  /\ OriginalWords = 50
  /\ ev.report.compression_ratio = 1000
  /\ ev.report.quality_score = 75

\* C11 as stated: every text evaluated against itself reports 100.0 percent
C11_SameTextReportsWholeRatio ==
  (Evaluated /\ ev.summary = ev.original_text) =>
    /\ ev.report.compression_ratio = 1000
    /\ ~InAnswer("Good compression ratio", ev.report.feedback)
    /\ ev.report.quality_score = OtherPoints
    /\ ev.report.quality_score <= 75

(***************************************************************************)
(* Properties of the store's write operations.                             *)
(***************************************************************************)
\* C19: update_summary(i, u, text, score) returns True exactly when a
\* record with id i owned by u exists; that record then has summary =
\* text, quality_score = score when one is given and its old score
\* otherwise, and created_at = the current time, its other fields and the
\* other records being as before; with no such record the call returns
\* False and the store is unchanged.
C19_UpdateSummary ==
  [][\A i \in 1..MaxId, u \in Users, text \in UpdateTexts, score \in UpdateScores :
       UpdateSummary(i, u, text, score) =>
         LET match == {r \in summaries : r.id = i /\ r.user_id = u}
         IN  /\ last'.result = (match # {})
             /\ match = {} => summaries' = summaries
             /\ \A r \in match :
                  /\ summaries' \ summaries \subseteq
                       { [r EXCEPT !.summary = text,
                                   !.quality_score =
                                      IF score = None THEN r.quality_score ELSE score[1],
                                   !.created_at = now] }
                  /\ \E x \in summaries' :
                       /\ x.id = i
                       /\ x.summary = text
                       /\ x.quality_score = (IF score = None THEN r.quality_score ELSE score[1])
                       /\ x.created_at = now
                  /\ summaries \ summaries' \subseteq {r}
                  /\ Cardinality(summaries') = Cardinality(summaries)]_vars

\* an earlier record updated, with a score, after time has passed
C19_Witness ==
  /\ last.op = "update"
  /\ last.result = TRUE
  /\ now > 0
  /\ \E r \in summaries :
       /\ r.summary \in UpdateTexts
       /\ r.quality_score = 50
       /\ r.created_at = now
       /\ r.id = 1

(***************************************************************************)
(* Properties of the store's read operations.  `last' holds the read that  *)
(* ran last, its arguments and its answer.                                 *)
(***************************************************************************)
ReadOps == {"list", "search", "recent", "statistics"}

\* C12: for a user_id that owns no record, get_user_summaries,
\* search_summaries and get_recent_summaries return the empty list and
\* get_summary_statistics returns zero counts, average and words and
\* favorite_style "None".
C12_ReadsOfUserWithoutRecords ==
  (last.op \in ReadOps /\ \A r \in summaries : r.user_id # last.user_id) =>
    IF last.op = "statistics"
    THEN last.result = [ total_summaries |-> 0, total_documents |-> 0,
                         average_quality |-> 0, favorite_style |-> "None",
                         total_words_processed |-> 0 ]
    ELSE last.result = <<>>

\* statistics of a user without records in a store that holds another's
C12_Witness ==
  /\ last.op = "statistics"
  /\ summaries # {}
  /\ \A r \in summaries : r.user_id # last.user_id
  /\ last.result.total_summaries = 0
  /\ last.result.favorite_style = "None"

\* q occurs in s as a substring, letters compared without regard to case
OccursIn(q, s) == Contains(LowerStr(q), LowerStr(s))

\* the records of user_id in which q occurs in the document name, the
\* summary or the stored excerpt
RecordsHolding(user_id, q) ==
  { r \in summaries :
      /\ r.user_id = user_id
      /\ \/ OccursIn(q, r.document_name)
         \/ OccursIn(q, r.summary)
         \/ OccursIn(q, r.original_text) }

\* answer lists records of S without repetition, newest first, and is the
\* first `limit' of them from position offset + 1 of such an ordering
IsWindowOf(answer, S, limit, offset) ==
  LET n == Cardinality(S)
      len == IF n <= offset THEN 0 ELSE IF n - offset < limit THEN n - offset ELSE limit
  IN  /\ Len(answer) = len
      /\ \A k \in 1..Len(answer) : answer[k] \in S
      /\ \A j, k \in 1..Len(answer) : j < k => /\ answer[j] # answer[k]
                                              /\ answer[j].created_at >= answer[k].created_at
      /\ \E skipped \in SUBSET (S \ Range(answer)) :
           /\ Cardinality(skipped) = (IF n <= offset THEN n ELSE offset)
           /\ \A r \in skipped, k \in 1..Len(answer) : r.created_at >= answer[k].created_at
           /\ \A r \in S \ (skipped \cup Range(answer)) :
                /\ \A x \in skipped : x.created_at >= r.created_at
                /\ \A k \in 1..Len(answer) : answer[k].created_at >= r.created_at

\* C13: search_summaries(u, q, limit) returns, newest first and cut to
\* limit, exactly the records of u in which q occurs, without regard to
\* case, in document_name, summary or the stored excerpt.
C13_SearchReturnsRecordsHoldingQuery ==
  last.op = "search" =>
    IsWindowOf(last.result, RecordsHolding(last.user_id, last.query), last.limit, 0)

\* C20: get_user_summaries(u, limit, offset) returns records of u only,
\* newest first by created_at, the ones at positions offset + 1 to
\* offset + limit of that order, and changes nothing in the store.
C20_UserSummariesWindow ==
  /\ [](last.op = "list" =>
          /\ IsWindowOf(last.result, {r \in summaries : r.user_id = last.user_id},
                        last.limit, last.offset)
          /\ \A k \in 1..Len(last.result) : last.result[k].user_id = last.user_id
          /\ Len(last.result) <= last.limit)
  /\ [][last'.op = "list" => (summaries' = summaries /\ sqlite_seq' = sqlite_seq)]_vars

\* the second page of a user's two records, of which the first saved was
\* updated later and so is the newer
C20_Witness ==
  /\ last.op = "list"
  /\ last.limit = 1
  /\ last.offset = 1
  /\ Len(last.result) = 1
  /\ \E r \in summaries :
       /\ r.user_id = last.user_id
       /\ r.created_at > last.result[1].created_at
       /\ r.id < last.result[1].id

(***************************************************************************)
(* Properties of the store across all of its operations.                   *)
(***************************************************************************)
\* the record of `rows' that has the id of r
SameId(r, rows) == {x \in rows : x.id = r.id}

\* x is r in every column but summary, quality_score and created_at
SameButUpdated(r, x) ==
  \A f \in DOMAIN r \ {"summary", "quality_score", "created_at"} : x[f] = r[f]

\* C21: a stored record's fields change only through update_summary:
\* across save_summary, delete_summary, cleanup_old_summaries and the reads
\* every record that stays keeps every field; update_summary changes one
\* record at most, and of it only summary, quality_score and created_at.
C21_RecordsChangeOnlyByUpdate ==
  [][\A r \in summaries :
       \/ r \in summaries'
       \/ /\ SameId(r, summaries') = {}
          /\ last'.op \in {"delete", "cleanup"}
       \/ /\ last'.op = "update"
          /\ \E x \in summaries' : SameId(r, summaries') = {x} /\ SameButUpdated(r, x)
          /\ \A o \in summaries \ {r} : o \in summaries']_vars

\* an update has rewritten one of two records, and a read, a save and a
\* purge by the other user have followed it
C21_Witness ==
  /\ last.op = "cleanup"
  /\ last.result = 0
  /\ sqlite_seq = MaxSaves
  /\ Cardinality(summaries) = 2
  /\ \E r \in summaries : r.summary \in UpdateTexts /\ r.created_at > 0

\* the styles of the enum
SummaryStyles == {"bullet", "abstract", "detailed"}

\* C22: every persisted record has summary_style in {bullet, abstract,
\* detailed}, whatever style was passed to summarize_text_with_db or
\* save_summary.
C22_StoredStyleIsOfTheEnum ==
  \A r \in summaries : r.summary_style \in SummaryStyles

\* the ids of the records of `rows'
Ids(rows) == {r.id : r \in rows}

\* C23: each save_summary returns an id greater than every id an earlier
\* save returned (sqlite_seq, the largest id assigned so far, which only a
\* save moves, and upwards), so no id is assigned twice, not even after the
\* record holding the largest id was deleted; and a record's id never
\* changes: a step that brings a new id leaves every earlier record as it
\* was.
C23_IdsAreNeverReused ==
  /\ [](\A r \in summaries : r.id <= sqlite_seq)
  /\ [][/\ sqlite_seq' >= sqlite_seq
        /\ (sqlite_seq' # sqlite_seq \/ Ids(summaries') \ Ids(summaries) # {}) =>
             /\ last'.op = "save"
             /\ last'.result > sqlite_seq
             /\ sqlite_seq' = last'.result
             /\ Ids(summaries') \ Ids(summaries) = {last'.result}
             /\ summaries \subseteq summaries'
        /\ (last'.op = "save" /\ last' # last) => last'.result > sqlite_seq]_vars

\* a save after the only record, which held the largest id assigned, was
\* removed: the new record has the next id, not the freed one
C23_Witness ==
  /\ last.op = "save"
  /\ last.result = 2
  /\ Ids(summaries) = {2}

(***************************************************************************)
(* Properties of the HTTP service's read operations.                       *)
(***************************************************************************)
\* C24: GET /user/{user_id}/summaries with a valid limit and offset
\* answers, not with an error, but with the window of the user's history
\* that the store's get_user_summaries gives for those arguments.
C24_HistoryRequestReturnsWindow ==
  [][(last'.op = "GET summaries" /\ last' # last) =>
       /\ last'.response.status = 200
       /\ last'.response.body \in
            get_user_summaries(summaries, last'.user_id, last'.limit, last'.offset)]_vars

\* C25: GET /user/{user_id}/search with a non-empty query answers, not
\* with an error, but with {results, query, count}, results being what the
\* backend's search gives for (user_id, query, limit) and count their
\* number.
C25_SearchRequestReturnsResults ==
  [][(last'.op = "GET search" /\ last' # last) =>
       /\ last'.response.status = 200
       /\ last'.response.body.results \in
            search_summaries(summaries, last'.user_id, last'.query, last'.limit)
       /\ last'.response.body.query = last'.query
       /\ last'.response.body.count = Len(last'.response.body.results)]_vars

=============================================================================
